---- MODULE Spec2Model ----
(***************************************************************************)
(* Model of the Mousetrap record plugin (plugins/record/mousetrap-record.js)*)
(* The module-level variables of the plugin are the state; every public    *)
(* entry point (record, stopRecord, handleKey for the three key event      *)
(* types) and the debounce timer callback is one action.  Every handler is *)
(* modelled whole: the nested calls _recordCurrentCombo ->                 *)
(* _restartRecordTimer -> _finishRecording -> callback -> record() are     *)
(* composed as operators over a record holding the plugin state.           *)
(***************************************************************************)
EXTENDS Integers, Sequences, FiniteSets, TLC

(* ------------------------------ bounds --------------------------------- *)

\* number of record() calls explored (each call is one session id)
MaxSessions == 2

\* longest Recorded Sequence explored: a session whose sequence is this long
\* gets no further key-down and finalizes no further combo
MaxSeq == 2

(* ------------------------------ inputs --------------------------------- *)

\* key identifiers: length 1 is a character key, longer is a modifier key
Chars == {"a", "b"}
Mods == {"shift"}
Keys == Chars \cup Mods

\* the modifier lists the host passes with a key event
ModLists == {<<>>, <<"shift">>}

\* the key identifiers the normalizer is exercised on
AllMods == {"alt", "ctrl", "shift"}
AllKeys == Chars \cup AllMods

EventTypes == {"keydown", "keyup", "keypress"}

\* first argument of record(): a bare callback, or an options object
OptArgs == {"callbackOnly", "seqTrue", "seqFalse"}

\* what the user's completion callback does when it runs: it returns, or it
\* calls record() with these options first
CbActs == {"none", "seqTrue", "seqFalse"}

Null == "null"
NoCallback == 0

(* ------------------------------ state ---------------------------------- *)

VARIABLES
    recording,                  \* self.recording
    recordedSequence,           \* _recordedSequence
    recordedSequenceCallback,   \* _recordedSequenceCallback (session id or NoCallback)
    callbackGiven,              \* the callback argument that function closes over is a function
    currentRecordedKeys,        \* _currentRecordedKeys
    recordedCharacterKey,       \* _recordedCharacterKey
    recordTimer,                \* a timeout set by _restartRecordTimer is pending
    options,                    \* _options
    lastHandledKeyCombo,        \* _lastHandledKeyCombo
    liveUpdateCallback,         \* self.liveUpdateCallback (session id)
    nextSession,                \* id the next record() call gets
    origCalls,                  \* calls of _origHandleKey made by the last step
    live,                       \* live-update callback calls made by the last step
    done,                       \* completion callback calls made by the last step
    lastOp,                     \* the entry point the last step ran, with its arguments
    sessCombos,                 \* combos finalized since the latest record() call
    sessKeys,                   \* keys recorded by _recordKey since the latest record() call
    sessFresh,                  \* the latest record() call was made in the initial state
    stopped,                    \* sessions that were active when stopRecord() was called
    afterStop,                  \* stopRecord() was the latest call before this state, or before the record() that led to it
    liveSigs,                   \* signatures dispatched since the latest key-up or record()
    liveLast,                   \* the signature dispatched last since then, or Null
    ended,                      \* sessions that _finishRecording ended in the last step
    timerOps,                   \* what _restartRecordTimer did in the last step
    fired,                      \* sessions whose completion callback was called before the last
                                \* step while the recorder went on holding it
    quiet                       \* the user has stopped acting on the recorder; the Recorded
                                \* Sequence at that moment

vars == <<recording, recordedSequence, recordedSequenceCallback, callbackGiven,
          currentRecordedKeys,
          recordedCharacterKey, recordTimer, options, lastHandledKeyCombo,
          liveUpdateCallback, nextSession, origCalls, live, done, lastOp,
          sessCombos, sessKeys, sessFresh, stopped, afterStop, liveSigs, liveLast,
          ended, timerOps, fired, quiet>>

\* the variables of the plugin itself
recorderVars == <<recordedSequence, recordedSequenceCallback, callbackGiven,
                  currentRecordedKeys,
                  recordedCharacterKey, recordTimer, lastHandledKeyCombo>>

(* --------------------------- pure helpers ------------------------------ *)

\* x.length of a key identifier
KeyLen(k) == Len(k)

\* the key identifiers in ascending order of JavaScript string comparison
KeyOrder == <<"a", "alt", "b", "ctrl", "shift">>

Rank(k) == CHOOSE i \in 1..Len(KeyOrder) : KeyOrder[i] = k

\* x > y on strings
StrGreater(x, y) == Rank(x) > Rank(y)

Contains(seq, k) == \E i \in 1..Len(seq) : seq[i] = k

\* Array.prototype.join('+')
RECURSIVE Join(_)
Join(seq) ==
    IF Len(seq) = 0 THEN ""
    ELSE IF Len(seq) = 1 THEN seq[1]
    ELSE seq[1] \o "+" \o Join(Tail(seq))

\* Array.from(new Set(arr)): first occurrences, in order
RECURSIVE Dedup(_)
Dedup(seq) ==
    IF Len(seq) = 0 THEN <<>>
    ELSE LET front == Dedup(SubSeq(seq, 1, Len(seq) - 1))
             k == seq[Len(seq)]
         IN IF Contains(front, k) THEN front ELSE Append(front, k)

\* a comparator without the modifier-first cases
Compare_Alphabetical(x, y) == IF StrGreater(x, y) THEN 1 ELSE -1

\* the comparator handed to sort() in _normalizeSequence
Compare(x, y) ==
    IF KeyLen(x) > 1 /\ KeyLen(y) = 1 THEN -1
    ELSE IF KeyLen(x) = 1 /\ KeyLen(y) > 1 THEN 1
    ELSE IF StrGreater(x, y) THEN 1 ELSE -1

Before(x, y) == Compare(x, y) < 0

\* insert k into a sorted list at the place the comparator gives it
RECURSIVE InsertSorted(_, _)
InsertSorted(seq, k) ==
    IF Len(seq) = 0 THEN <<k>>
    ELSE IF Before(k, seq[1]) THEN <<k>> \o seq
    ELSE <<seq[1]>> \o InsertSorted(Tail(seq), k)

\* sequence[i].sort(comparator)
RECURSIVE SortCombo(_)
SortCombo(combo) ==
    IF Len(combo) = 0 THEN <<>>
    ELSE InsertSorted(SortCombo(SubSeq(combo, 1, Len(combo) - 1)), combo[Len(combo)])

NormalizeSequence(sequence) ==
    [i \in 1..Len(sequence) |-> Join(SortCombo(sequence[i]))]

(* ---------------------- the plugin state as a value --------------------- *)

\* the state a handler works on; the handlers below map one such record to the next
Cur ==
    [recording |-> recording,
     recordedSequence |-> recordedSequence,
     recordedSequenceCallback |-> recordedSequenceCallback,
     callbackGiven |-> callbackGiven,
     currentRecordedKeys |-> currentRecordedKeys,
     recordedCharacterKey |-> recordedCharacterKey,
     recordTimer |-> recordTimer,
     options |-> options,
     lastHandledKeyCombo |-> lastHandledKeyCombo,
     liveUpdateCallback |-> liveUpdateCallback,
     nextSession |-> nextSession,
     origCalls |-> <<>>,
     live |-> <<>>,
     done |-> <<>>,
     sessCombos |-> sessCombos,
     sessKeys |-> sessKeys,
     sessFresh |-> sessFresh,
     liveSigs |-> liveSigs,
     liveLast |-> liveLast,
     ended |-> <<>>,
     timerOps |-> <<>>,
     thrown |-> FALSE]

Commit(s) ==
    /\ recording' = s.recording
    /\ recordedSequence' = s.recordedSequence
    /\ recordedSequenceCallback' = s.recordedSequenceCallback
    /\ callbackGiven' = s.callbackGiven
    /\ currentRecordedKeys' = s.currentRecordedKeys
    /\ recordedCharacterKey' = s.recordedCharacterKey
    /\ recordTimer' = s.recordTimer
    /\ options' = s.options
    /\ lastHandledKeyCombo' = s.lastHandledKeyCombo
    /\ liveUpdateCallback' = s.liveUpdateCallback
    /\ nextSession' = s.nextSession
    /\ origCalls' = s.origCalls
    /\ live' = s.live
    /\ done' = s.done
    /\ sessCombos' = s.sessCombos
    /\ sessKeys' = s.sessKeys
    /\ sessFresh' = s.sessFresh
    /\ liveSigs' = s.liveSigs
    /\ liveLast' = s.liveLast
    /\ ended' = s.ended
    /\ timerOps' = s.timerOps
    /\ fired' = {x \in fired \cup {done[i].session : i \in 1..Len(done)} :
                     x = recordedSequenceCallback}

\* what a callback can observe of the recorder when it is called
View(s) ==
    [recording |-> s.recording,
     currentRecordedKeys |-> s.currentRecordedKeys,
     recordedSequence |-> s.recordedSequence,
     recordedSequenceCallback |-> s.recordedSequenceCallback]

\* the module-level variables hold the values they are declared with
Pristine(s) ==
    /\ s.recordedSequence = <<>>
    /\ s.recordedSequenceCallback = NoCallback
    /\ s.currentRecordedKeys = <<>>
    /\ s.recordedCharacterKey = FALSE
    /\ s.recordTimer = FALSE
    /\ s.lastHandledKeyCombo = Null

(* ------------------------- history bookkeeping -------------------------- *)

\* The history variables describe the session in progress: record() starts
\* them afresh and they are emptied when the session ends.
NoteRecord(s) ==
    [s EXCEPT !.sessCombos = <<>>, !.sessKeys = {}, !.sessFresh = Pristine(s),
              !.liveSigs = {}, !.liveLast = Null]

NoteEnd(s) ==
    [s EXCEPT !.sessCombos = <<>>, !.sessKeys = {}, !.sessFresh = FALSE,
              !.liveSigs = {}, !.liveLast = Null]

NoteFinalize(s) == [s EXCEPT !.sessCombos = Append(@, s.currentRecordedKeys)]

NoteKeyDown(s, character, modifiers) ==
    IF s.recording
    THEN [s EXCEPT !.sessKeys = @ \cup {character}
                                  \cup {modifiers[i] : i \in 1..Len(modifiers)}]
    ELSE s

NoteKeyUp(s) == [s EXCEPT !.liveSigs = {}, !.liveLast = Null]

NoteLive(s, keyCombo) ==
    [s EXCEPT !.live = Append(@, [session |-> s.liveUpdateCallback, sig |-> keyCombo,
                                  again |-> keyCombo \in s.liveSigs,
                                  repeat |-> keyCombo = s.liveLast]),
              !.liveSigs = IF s.recording THEN @ \cup {keyCombo} ELSE @,
              !.liveLast = IF s.recording THEN keyCombo ELSE @]

\* one call of a user's completion callback: b is the state _finishRecording
\* started in, entry the state the callback was called in, ret the state when
\* _finishRecording returns
NoteDone(b, callback, sequence, arguments, entry, ret, cb) ==
    [ret EXCEPT !.done = Append(@,
        [session |-> callback,
         seq |-> arguments,
         raw |-> sequence,
         mode |-> b.options.recordSequence,
         combos |-> b.sessCombos,
         keys |-> b.sessKeys,
         fresh |-> b.sessFresh,
         reentered |-> (cb # "none"),
         atCall |-> View(entry),
         after |-> View(ret)])]

\* _finishRecording ended a session: b is the state it started in, ret the
\* state when it returns or throws
NoteEnded(b, callback, given, ret) ==
    [ret EXCEPT !.ended = Append(@,
        [session |-> callback,
         given |-> given,
         error |-> ret.thrown,
         held |-> b.currentRecordedKeys,
         after |-> View(ret)])]

\* a call of clearTimeout or setTimeout in _restartRecordTimer
NoteTimer(s, op) ==
    [s EXCEPT !.timerOps = Append(@, [op |-> op, mode |-> s.options.recordSequence])]

(* ------------------------------ the code -------------------------------- *)

\* _extend({}, _defaultOptions) followed by _extend(_options, options)
MergeOptions(opt) == [recordSequence |-> (opt # "seqFalse")]

\* Mousetrap.prototype.record
Record(s, opt, given) ==
    [s EXCEPT !.options = MergeOptions(opt),
              !.recording = TRUE,
              !.recordedSequenceCallback = s.nextSession,
              !.callbackGiven = given,
              !.liveUpdateCallback = s.nextSession,
              !.nextSession = @ + 1]

\* _resetState
ResetState(s) ==
    [s EXCEPT !.recordedSequence = <<>>,
              !.recordedSequenceCallback = NoCallback,
              !.callbackGiven = FALSE,
              !.currentRecordedKeys = <<>>]

\* stopRecord() without the call of _resetState
StopRecord_NoReset(s) == [s EXCEPT !.recording = FALSE]

\* Mousetrap.prototype.stopRecord
StopRecord(s) == ResetState([s EXCEPT !.recording = FALSE])

\* the user's completion callback: it returns, or calls record() first
UserCallback(s, cb) == IF cb = "none" THEN s ELSE Record(NoteRecord(s), cb, TRUE)

\* first statement of the function record() stores as _recordedSequenceCallback
CallbackEntry(s) == [s EXCEPT !.recording = FALSE]

\* the function record() stores as _recordedSequenceCallback: callback.apply
\* throws a TypeError when record() was given no callback
RecordedSequenceCallback(s, given, cb) ==
    IF given THEN UserCallback(CallbackEntry(s), cb)
    ELSE [CallbackEntry(s) EXCEPT !.thrown = TRUE]

\* _finishRecording calling the callback before it resets the state
FinishRecording_CallbackFirst(s, cb) ==
    LET sequence == s.recordedSequence
        callback == s.recordedSequenceCallback
        given == s.callbackGiven
        ret == RecordedSequenceCallback(NoteEnd(s), given, cb)
    IN IF callback # NoCallback
       THEN NoteEnded(s, callback, given,
                IF given
                THEN NoteDone(s, callback, sequence, NormalizeSequence(sequence),
                              CallbackEntry(s), ResetState(ret), cb)
                ELSE ret)
       ELSE ResetState(s)

\* _finishRecording that hands the sequence to the user's callback and leaves
\* the session as it is
FinishRecording_ReportOnly(s, cb) ==
    LET sequence == s.recordedSequence
        callback == s.recordedSequenceCallback
    IN IF callback # NoCallback /\ s.callbackGiven
       THEN NoteDone(s, callback, sequence, NormalizeSequence(sequence), s, s, "none")
       ELSE s

\* _finishRecording
FinishRecording(s, cb) ==
    LET sequence == s.recordedSequence
        callback == s.recordedSequenceCallback
        given == s.callbackGiven
        s1 == ResetState(s)
        ret == RecordedSequenceCallback(NoteEnd(s1), given, cb)
    IN IF callback # NoCallback
       THEN NoteEnded(s, callback, given,
                IF given
                THEN NoteDone(s, callback, sequence, NormalizeSequence(sequence),
                              CallbackEntry(s1), ret, cb)
                ELSE ret)
       ELSE s1

\* _restartRecordTimer without the call of setTimeout
RestartRecordTimer_NoTimeout(s, cb) ==
    LET s1 == NoteTimer([s EXCEPT !.recordTimer = FALSE], "clear")
    IN IF s1.options.recordSequence
       THEN s1
       ELSE FinishRecording(s1, cb)

\* _restartRecordTimer
RestartRecordTimer(s, cb) ==
    LET s1 == NoteTimer([s EXCEPT !.recordTimer = FALSE], "clear")
    IN IF s1.options.recordSequence
       THEN NoteTimer([s1 EXCEPT !.recordTimer = TRUE], "set")
       ELSE FinishRecording(s1, cb)

\* _recordCurrentCombo with unshift in place of push
RecordCurrentCombo_Prepend(s, cb) ==
    RestartRecordTimer(
        [s EXCEPT !.recordedSequence = <<s.currentRecordedKeys>> \o @,
                  !.currentRecordedKeys = <<>>,
                  !.recordedCharacterKey = FALSE], cb)

\* _recordCurrentCombo
RecordCurrentCombo(s, cb) ==
    RestartRecordTimer(
        [s EXCEPT !.recordedSequence = Append(@, s.currentRecordedKeys),
                  !.currentRecordedKeys = <<>>,
                  !.recordedCharacterKey = FALSE], cb)

\* _recordKey without the test for a key that is already recorded
RecordKey_AllowDuplicates(s, key) ==
    [s EXCEPT !.currentRecordedKeys = Append(@, key),
              !.recordedCharacterKey = IF KeyLen(key) = 1 THEN TRUE ELSE @]

\* _recordKey
RecordKey(s, key) ==
    IF Contains(s.currentRecordedKeys, key) THEN s
    ELSE [s EXCEPT !.currentRecordedKeys = Append(@, key),
                   !.recordedCharacterKey = IF KeyLen(key) = 1 THEN TRUE ELSE @]

\* the loop over modifiers in _handleKey
RECURSIVE RecordKeys(_, _)
RecordKeys(s, keys) ==
    IF Len(keys) = 0 THEN s ELSE RecordKeys(RecordKey(s, keys[1]), Tail(keys))

\* the key-down branch without the comparison with _lastHandledKeyCombo
HandleKeyDown_NoDedup(s, character, modifiers, cb) ==
    LET s1 == IF KeyLen(character) = 1 /\ s.recordedCharacterKey
              THEN RecordCurrentCombo(NoteFinalize(s), cb)
              ELSE s
        s2 == RecordKey(RecordKeys(NoteKeyDown(s1, character, modifiers), modifiers),
                        character)
        keyCombo == Join(Dedup(Append(modifiers, character)))
    IN IF s1.thrown THEN s1
       ELSE NoteLive([s2 EXCEPT !.lastHandledKeyCombo = keyCombo], keyCombo)

\* the key-down branch of _handleKey; an exception thrown out of
\* _recordCurrentCombo leaves the rest of it undone
HandleKeyDown(s, character, modifiers, cb) ==
    LET s1 == IF KeyLen(character) = 1 /\ s.recordedCharacterKey
              THEN RecordCurrentCombo(NoteFinalize(s), cb)
              ELSE s
        s2 == RecordKey(RecordKeys(NoteKeyDown(s1, character, modifiers), modifiers),
                        character)
        keyCombo == Join(Dedup(Append(modifiers, character)))
    IN IF s1.thrown THEN s1
       ELSE IF s2.lastHandledKeyCombo # keyCombo
       THEN NoteLive([s2 EXCEPT !.lastHandledKeyCombo = keyCombo], keyCombo)
       ELSE s2

\* the key-up branch of _handleKey
HandleKeyUp(s, cb) ==
    LET s1 == NoteKeyUp([s EXCEPT !.lastHandledKeyCombo = Null])
    IN IF Len(s1.currentRecordedKeys) > 0
       THEN RecordCurrentCombo(NoteFinalize(s1), cb)
       ELSE s1

\* _handleKey without the return after the call of _origHandleKey
HandleKey_NoReturn(s, character, modifiers, type, cb) ==
    LET s1 == IF ~s.recording
              THEN [s EXCEPT !.origCalls = Append(@, [character |-> character,
                                                      modifiers |-> modifiers,
                                                      type |-> type,
                                                      given |-> <<character, modifiers, type>>])]
              ELSE s
    IN IF type = "keydown" THEN HandleKeyDown(s1, character, modifiers, cb)
       ELSE IF type = "keyup" THEN HandleKeyUp(s1, cb)
       ELSE s1

\* _handleKey, which Mousetrap.prototype.handleKey applies to its arguments
HandleKey(s, character, modifiers, type, cb) ==
    IF ~s.recording
    THEN [s EXCEPT !.origCalls = Append(@, [character |-> character,
                                            modifiers |-> modifiers,
                                            type |-> type,
                                            given |-> <<character, modifiers, type>>])]
    ELSE IF type = "keydown" THEN HandleKeyDown(s, character, modifiers, cb)
    ELSE IF type = "keyup" THEN HandleKeyUp(s, cb)
    ELSE s

(* ------------------------------ actions --------------------------------- *)

\* the user is acting on the recorder
NotQuiet == [on |-> FALSE, seq |-> <<>>]

Init ==
    /\ recording = FALSE
    /\ recordedSequence = <<>>
    /\ recordedSequenceCallback = NoCallback
    /\ callbackGiven = FALSE
    /\ currentRecordedKeys = <<>>
    /\ recordedCharacterKey = FALSE
    /\ recordTimer = FALSE
    /\ options = [recordSequence |-> TRUE]
    /\ lastHandledKeyCombo = Null
    /\ liveUpdateCallback = NoCallback
    /\ nextSession = 1
    /\ origCalls = <<>>
    /\ live = <<>>
    /\ done = <<>>
    /\ lastOp = [op |-> "init"]
    /\ sessCombos = <<>>
    /\ sessKeys = {}
    /\ sessFresh = FALSE
    /\ stopped = {}
    /\ afterStop = FALSE
    /\ liveSigs = {}
    /\ liveLast = Null
    /\ ended = <<>>
    /\ timerOps = <<>>
    /\ fired = {}
    /\ quiet = NotQuiet

\* the key event would finalize a combo
Finalizes(character, type) ==
    /\ recording
    /\ \/ type = "keydown" /\ KeyLen(character) = 1 /\ recordedCharacterKey
       \/ type = "keyup" /\ Len(currentRecordedKeys) > 0

\* The behaviour of the completion callback is an input of the steps that call
\* it; it may call record() only while session ids are left.
CbChoices(calls) ==
    IF calls /\ recordedSequenceCallback # NoCallback /\ callbackGiven
             /\ nextSession <= MaxSessions
    THEN CbActs ELSE {"none"}

\* on key-down the host lists a pressed modifier key among the modifiers
HostEvent(character, modifiers, type) ==
    (type = "keydown" /\ character \in Mods) => Contains(modifiers, character)

\* record() called with a completion callback (given) or without one
RecordCall(givens) ==
    \E opt \in OptArgs, given \in givens :
        /\ nextSession <= MaxSessions
        /\ ~quiet.on
        /\ Commit(Record(NoteRecord(Cur), opt, given))
        /\ quiet' = NotQuiet
        /\ lastOp' = [op |-> "record"]
        /\ afterStop' = (afterStop /\ ~recording)
        /\ UNCHANGED stopped

DoRecord == RecordCall(BOOLEAN)

DoStopRecord ==
    /\ ~quiet.on
    /\ Commit(StopRecord(NoteEnd(Cur)))
    /\ quiet' = NotQuiet
    /\ lastOp' = [op |-> "stopRecord"]
    /\ stopped' = IF recording THEN stopped \cup {recordedSequenceCallback} ELSE stopped
    /\ afterStop' = TRUE

KeyEvent(type) ==
    \E character \in Keys, modifiers \in ModLists :
        /\ HostEvent(character, modifiers, type)
        /\ ~quiet.on
        /\ quiet' = NotQuiet
        /\ (recording /\ (type = "keydown" \/ Finalizes(character, type)))
              => Len(recordedSequence) < MaxSeq
        /\ \E cb \in CbChoices(Finalizes(character, type) /\ ~options.recordSequence) :
              \E s \in {HandleKey(Cur, character, modifiers, type, cb)} : Commit(s)
        /\ lastOp' = IF type = "keydown"
                     THEN [op |-> type, character |-> character, modifiers |-> modifiers]
                     ELSE [op |-> type]
        /\ afterStop' = (afterStop /\ ~recording)
        /\ UNCHANGED stopped

KeyDown == KeyEvent("keydown")

KeyUp == KeyEvent("keyup")

KeyPress == KeyEvent("keypress")

\* the timeout set by _restartRecordTimer expires
TimerFire ==
    \E cb \in CbChoices(~quiet.on) :
        /\ recordTimer
        /\ quiet' = [quiet EXCEPT !.on = FALSE]
        /\ \E s \in {FinishRecording([Cur EXCEPT !.recordTimer = FALSE], cb)} : Commit(s)
        /\ lastOp' = [op |-> "timer"]
        /\ afterStop' = (afterStop /\ ~recording)
        /\ UNCHANGED stopped

Next == DoRecord \/ DoStopRecord \/ KeyDown \/ KeyUp \/ KeyPress \/ TimerFire

Spec == Init /\ [][Next]_vars

\* In a sequence-mode session that has finalized a combo the user stops: from
\* here on no key event arrives and neither record() nor stopRecord() is called,
\* in the completion callback either.
GoQuiet ==
    /\ ~quiet.on
    /\ recording
    /\ options.recordSequence
    /\ callbackGiven
    /\ sessCombos # <<>>
    /\ quiet' = [on |-> TRUE, seq |-> recordedSequence]
    /\ UNCHANGED <<recording, recordedSequence, recordedSequenceCallback, callbackGiven,
                   currentRecordedKeys, recordedCharacterKey, recordTimer, options,
                   lastHandledKeyCombo, liveUpdateCallback, nextSession, origCalls, live,
                   done, lastOp, sessCombos, sessKeys, sessFresh, stopped, afterStop,
                   liveSigs, liveLast, ended, timerOps, fired>>

\* record() called with a completion callback
DoRecordCallback == RecordCall({TRUE})

\* the sessions of the liveness specification all have a completion callback
NextLive ==
    DoRecordCallback \/ DoStopRecord \/ KeyDown \/ KeyUp \/ KeyPress \/ TimerFire \/ GoQuiet

\* the steps of TimerFire, told by the two variables every one of them sets:
\* no other action sets lastOp to "timer", and TimerFire is enabled exactly
\* when the timeout is set
TimerExpires == recordTimer /\ recordTimer' = FALSE /\ lastOp' = [op |-> "timer"]

\* a timeout that stays set expires: the host's event loop runs it
SpecLive == Init /\ [][NextLive]_vars /\ WF_<<recordTimer, lastOp>>(TimerExpires)

(* --------------------- the normalizer on its own ------------------------ *)

\* lists of distinct keys, at most MaxCombo long
RECURSIVE DistinctSeqs(_, _)
DistinctSeqs(S, n) ==
    IF n = 0 THEN {<<>>}
    ELSE LET shorter == DistinctSeqs(S, n - 1)
         IN shorter \cup {Append(q, k) : q \in {r \in shorter : Len(r) = n - 1},
                                         k \in S} 

KeysOf(combo) == {combo[i] : i \in 1..Len(combo)}

\* the combos a session can hold: distinct keys, at most one character key
Combos ==
    {q \in DistinctSeqs(AllKeys, Cardinality(AllMods) + 1) :
        /\ Cardinality(KeysOf(q)) = Len(q)
        /\ Cardinality(KeysOf(q) \cap Chars) <= 1}

\* a sequence-mode session that finalized one combo and waits for its timer
InitNorm ==
    /\ \E combo \in Combos :
        /\ recordedSequence = <<combo>>
        /\ sessCombos = <<combo>>
        /\ sessKeys = KeysOf(combo)
    /\ recording = TRUE
    /\ recordedSequenceCallback = 1
    /\ callbackGiven = TRUE
    /\ currentRecordedKeys = <<>>
    /\ recordedCharacterKey = FALSE
    /\ recordTimer = TRUE
    /\ options = [recordSequence |-> TRUE]
    /\ lastHandledKeyCombo = Null
    /\ liveUpdateCallback = 1
    /\ nextSession = 2
    /\ origCalls = <<>>
    /\ live = <<>>
    /\ done = <<>>
    /\ lastOp = [op |-> "keyup"]
    /\ sessFresh = TRUE
    /\ stopped = {}
    /\ afterStop = FALSE
    /\ liveSigs = {}
    /\ liveLast = Null
    /\ ended = <<>>
    /\ timerOps = <<[op |-> "clear", mode |-> TRUE], [op |-> "set", mode |-> TRUE]>>
    /\ fired = {}
    /\ quiet = NotQuiet

SpecNorm == InitNorm /\ [][TimerFire]_vars

(* ------------------------------ claims ---------------------------------- *)

Events(log) == {log[i] : i \in 1..Len(log)}

\* modifier keys in alphabetical order, then character keys in alphabetical order
SpecOrder == <<"alt", "ctrl", "shift", "a", "b">>

\* the combo string the specification gives for a set of keys
CanonCombo(keys) == Join(SelectSeq(SpecOrder, LAMBDA k : k \in keys))

CanonSequence(combos) == [i \in 1..Len(combos) |-> CanonCombo(KeysOf(combos[i]))]

\* C1: a key event that arrives while no session is active is handed to the
\* original handler exactly once, with the arguments handleKey was given, and
\* changes no variable of the recorder and calls no callback; a key event that
\* arrives while a session is active never reaches the original handler.
C1_ModeGate ==
    [][lastOp'.op \in EventTypes =>
         IF ~recording
         THEN /\ Len(origCalls') = 1
              /\ origCalls'[1].given =
                    <<origCalls'[1].character, origCalls'[1].modifiers, origCalls'[1].type>>
              /\ origCalls'[1].type = lastOp'.op
              /\ UNCHANGED recorderVars
              /\ UNCHANGED recording
              /\ live' = <<>>
              /\ done' = <<>>
         ELSE origCalls' = <<>>]_vars

\* C1 witness: a key-down is passed through after a session has ended, with
\* keys of that session still in the Current Combo.
C1_Witness ==
    /\ lastOp.op = "keydown"
    /\ ~recording
    /\ Len(origCalls) = 1
    /\ currentRecordedKeys # <<>>

\* C2: the callback of a sequence-mode session that record() started in the
\* initial state is called when the timer expires and receives exactly the
\* combos finalized during the session, in order, each as its canonical string.
C2_SequenceDelivered ==
    \A e \in Events(done) :
        (e.fresh /\ e.mode) => (lastOp.op = "timer" /\ e.seq = CanonSequence(e.combos))

\* C2 witness: such a session delivers ["a", "b"].
C2_Witness ==
    \E e \in Events(done) : e.fresh /\ e.mode /\ e.seq = <<"a", "b">>

\* C3 (as claimed): the callback of a session started with recordSequence false
\* is called inside a key event and receives exactly one combo.
C3_Orig ==
    \A e \in Events(done) :
        ~e.mode => (lastOp.op \in {"keydown", "keyup"} /\ Len(e.seq) = 1)

\* C4 (as claimed): when the callback of a non-sequence session has fired and
\* has not called record(), the rest of the key event adds no key to the Current
\* Combo, does not set the character-key flag and calls no live-update callback.
C4_Orig ==
    \A e \in Events(done) :
        (~e.mode /\ ~e.reentered) =>
            (currentRecordedKeys = <<>> /\ ~recordedCharacterKey /\ live = <<>>)

\* C5: the completion callback of a session that stopRecord() ended is never
\* called afterwards.
C5_NoCallbackAfterStop ==
    \A e \in Events(done) : e.session \notin stopped

\* C5 witness: after a stopRecord() the timer that was pending at the stop
\* expires and calls a callback, the one of a later session, with nothing
\* recorded.
C5_Witness ==
    /\ lastOp.op = "timer"
    /\ stopped # {}
    /\ \E e \in Events(done) : e.raw = <<>>

\* C6 (as claimed): right after a record() that follows a stopRecord(), the
\* Current Combo and the Recorded Sequence are empty and the character-key flag
\* is false.
C6_Orig ==
    (lastOp.op = "record" /\ afterStop) =>
        (currentRecordedKeys = <<>> /\ recordedSequence = <<>> /\ ~recordedCharacterKey)

\* C7 (as claimed): the list a completion callback receives holds only combos
\* finalized since the record() call of its session, built from keys of
\* key-downs that arrived after that call.
C7_Orig ==
    \A e \in Events(done) :
        /\ e.raw = e.combos
        /\ \A i \in 1..Len(e.raw) : KeysOf(e.raw[i]) \subseteq e.keys

\* C8: when the user's completion callback is called the session is inactive,
\* the Current Combo and the Recorded Sequence are empty and no callback is
\* stored; if the callback calls record(), the new session is active with its
\* own callback and an empty Recorded Sequence when _finishRecording returns.
C8_ResetBeforeCallback ==
    \A e \in Events(done) :
        /\ ~e.atCall.recording
        /\ e.atCall.currentRecordedKeys = <<>>
        /\ e.atCall.recordedSequence = <<>>
        /\ e.atCall.recordedSequenceCallback = NoCallback
        /\ e.reentered =>
              /\ e.after.recording
              /\ e.after.recordedSequenceCallback > e.session
              /\ e.after.recordedSequence = <<>>

\* C8 witness: a callback that received a combo has called record().
C8_Witness ==
    \E e \in Events(done) : e.reentered /\ Len(e.raw) > 0 /\ e.raw[1] # <<>>

\* C9: every combo string handed to the completion callback is the combo's
\* modifier keys in alphabetical order followed by its character keys in
\* alphabetical order, joined with '+', whatever order the keys arrived in.
C9_CanonicalCombo ==
    \A e \in Events(done) :
        /\ Len(e.seq) = Len(e.raw)
        /\ \A i \in 1..Len(e.raw) : e.seq[i] = CanonCombo(KeysOf(e.raw[i]))

\* C9 witness: shift, ctrl, a in this arrival order is delivered as "ctrl+shift+a".
C9_Witness ==
    \E e \in Events(done) :
        e.raw = <<(<<"shift", "ctrl", "a">>)>> /\ e.seq = <<"ctrl+shift+a">>

\* C10 (as claimed): the live-update callback is called at most once for each
\* signature between two key releases, or between record() and the first one.
C10_Orig ==
    \A e \in Events(live) : ~e.again

\* C10 (amended): between two key releases, or between record() and the first
\* one, the live-update callback is never called twice in a row with the same
\* signature.
C10_NoConsecutiveRepeat ==
    \A e \in Events(live) : ~e.repeat

\* C10 witness: a key-down repeating the signature dispatched last is consumed
\* and calls no live-update callback.
C10_Witness ==
    /\ lastOp.op = "keydown"
    /\ recording
    /\ live = <<>>
    /\ liveLast # Null
    /\ liveLast = lastHandledKeyCombo

\* C11 (as claimed): when a session that record() started without a completion
\* callback finishes, no error is raised and no result is delivered, and the
\* recorder is idle with an empty Current Combo and an empty Recorded Sequence.
C11_Orig ==
    \A e \in Events(ended) :
        ~e.given => /\ ~e.error
                    /\ done = <<>>
                    /\ ~recording
                    /\ currentRecordedKeys = <<>>
                    /\ recordedSequence = <<>>

\* C12 (as claimed): in every reachable state a debounce timer is pending only
\* if a session is active and its Recorded Sequence is non-empty.
C12_Orig == recordTimer => (recording /\ recordedSequence # <<>>)

\* C13 (as claimed): the Recorded Sequence never contains an empty combo, and
\* no completion callback is ever given a list with an empty string in it.
C13_Orig ==
    /\ \A i \in 1..Len(recordedSequence) : recordedSequence[i] # <<>>
    /\ \A e \in Events(done) : \A i \in 1..Len(e.seq) : e.seq[i] # ""

\* C14 (as claimed): the timer never finishes a recording while a combo is in
\* progress: when the expiry of the timer ends a session, its Current Combo was
\* empty, so no held key is dropped from the result.
C14_Orig == lastOp.op = "timer" => \A e \in Events(ended) : e.held = <<>>

\* the completion callback was called with the sequence accumulated when the
\* user stopped, and the recorder is idle
Delivered ==
    /\ ~quiet.on
    /\ lastOp.op = "timer"
    /\ Len(done) = 1
    /\ done[1].raw = quiet.seq
    /\ done[1].seq = NormalizeSequence(quiet.seq)
    /\ ~recording
    /\ recordedSequence = <<>>
    /\ currentRecordedKeys = <<>>
    /\ ~recordTimer

\* a combo finalized in sequence mode cancels the timer and sets it again, and
\* the session goes on
Restarted ==
    (\E i \in 1..Len(timerOps) : timerOps[i].mode) =>
        /\ timerOps = <<[op |-> "clear", mode |-> TRUE], [op |-> "set", mode |-> TRUE]>>
        /\ recordTimer
        /\ recording
        /\ ended = <<>>
        /\ done = <<>>

\* C15: in sequence mode, once a session has finalized a combo and no key
\* event, record() or stopRecord() follows, the timer expires, the completion
\* callback is called with the accumulated sequence and the recorder is idle;
\* every combo finalized before that cancels the timer and sets it again
\* instead of finishing.
C15_TimerDelivers == (quiet.on ~> Delivered) /\ []Restarted

C15_Witness == Delivered /\ Len(quiet.seq) = 2

\* the combo holds a character key
HasCharacterKey(combo) == \E i \in 1..Len(combo) : KeyLen(combo[i]) = 1

\* C16 (as claimed): in sequence mode a key-down of a character key while the
\* Current Combo holds a character key appends the Current Combo to the
\* Recorded Sequence and starts a new one with the event's modifiers and key;
\* any other key-down leaves the Recorded Sequence as it is and appends to the
\* Current Combo the keys of the event it does not hold yet.
C16_Orig ==
    [][(recording /\ options.recordSequence /\ lastOp'.op = "keydown") =>
         LET eventKeys == Dedup(Append(lastOp'.modifiers, lastOp'.character))
         IN IF KeyLen(lastOp'.character) = 1 /\ HasCharacterKey(currentRecordedKeys)
            THEN /\ recordedSequence' = Append(recordedSequence, currentRecordedKeys)
                 /\ currentRecordedKeys' = eventKeys
            ELSE /\ recordedSequence' = recordedSequence
                 /\ currentRecordedKeys' =
                       currentRecordedKeys \o
                       SelectSeq(eventKeys, LAMBDA k : ~Contains(currentRecordedKeys, k))]_vars

\* C17: the completion callback passed to one call of record() is called at
\* most once: a step never calls a callback that was called before, nor the
\* same callback twice, and record() never stores a callback under the identity
\* of an earlier call.
C17_AtMostOnce ==
    /\ \A i \in 1..Len(done) :
          /\ done[i].session \notin fired
          /\ \A j \in 1..Len(done) : j # i => done[j].session # done[i].session
    /\ recordedSequenceCallback < nextSession

\* the callback of the first session was called, called record() itself, and
\* the recorder holds the callback of the second session
C17_Witness ==
    /\ Len(done) = 1
    /\ done[1].session = 1
    /\ done[1].reentered
    /\ recordedSequenceCallback = 2
    /\ recording

\* C18 (as claimed): a completion callback is never called with an empty list:
\* the list it receives holds at least one combo finalized during its session.
C18_Orig ==
    \A e \in Events(done) :
        /\ Len(e.seq) >= 1
        /\ \E i \in 1..Len(e.raw) : \E j \in 1..Len(e.combos) : e.raw[i] = e.combos[j]

\* the step consumes a key-down with the character and modifiers of the
\* key-down consumed before it, with no key-up in between
RepeatedKeyDown ==
    /\ recording
    /\ lastOp'.op = "keydown"
    /\ liveLast = Join(Dedup(Append(lastOp'.modifiers, lastOp'.character)))

\* C19 (as claimed): an auto-repeated key-down of an unchanged combo leaves the
\* Recorded Sequence and the Current Combo as they are.
C19_Orig == [][RepeatedKeyDown => UNCHANGED <<recordedSequence, currentRecordedKeys>>]_vars

\* C19 (amended): an auto-repeated key-down leaves the Recorded Sequence and
\* the Current Combo as they are when its key is a modifier key; when its key
\* is a character key it finalizes the Current Combo: in sequence mode the
\* combo is appended to the Recorded Sequence, the timer is set and a new
\* Current Combo with the keys of the event begins, in non-sequence mode the
\* session finishes.
C19_RepeatFinalizesCharacter ==
    [][RepeatedKeyDown =>
         IF KeyLen(lastOp'.character) = 1
         THEN IF options.recordSequence
              THEN /\ recordedSequence' = Append(recordedSequence, currentRecordedKeys)
                   /\ currentRecordedKeys' =
                         Dedup(Append(lastOp'.modifiers, lastOp'.character))
                   /\ recordTimer'
                   /\ ended' = <<>>
              ELSE /\ Len(ended') = 1
                   /\ ended'[1].session = recordedSequenceCallback
                   /\ ended'[1].held = <<>>
         ELSE UNCHANGED <<recordedSequence, currentRecordedKeys>>]_vars

\* key a is held in sequence mode: its first repeat has finalized combo a and
\* begun another, and has not called the live-update callback
C19_Witness ==
    /\ recording
    /\ options.recordSequence
    /\ lastOp = [op |-> "keydown", character |-> "a", modifiers |-> <<>>]
    /\ live = <<>>
    /\ liveLast = "a"
    /\ recordedSequence = <<<<"a">>>>
    /\ currentRecordedKeys = <<"a">>

\* C20 (as claimed): the first key-down a session consumes after record(), and
\* the first key-down after a key-up during recording, call that session's
\* live-update callback with the signature of the event, whatever came before.
C20_Orig ==
    [][(recording /\ lastOp'.op = "keydown" /\ (sessKeys = {} \/ lastOp.op = "keyup")) =>
         \E e \in Events(live') :
             /\ e.session = liveUpdateCallback
             /\ e.sig = Join(Dedup(Append(lastOp'.modifiers, lastOp'.character)))]_vars

====
